---------------------------- MODULE Spec2Model ----------------------------
(***************************************************************************)
(* Model of yle-subtitle-dl: the HLS media-playlist poller                 *)
(* (yle_subtitle_dl/downloader.py), the WebVTT merge engine                *)
(* (yle_subtitle_dl/vttmerge.py) and the per-track task orchestration.     *)
(*                                                                         *)
(* Instants and durations are integer milliseconds.  A WebVTT payload is   *)
(* the sequence of its lines (str.splitlines); a line is a record naming   *)
(* which of the engine's regular expressions it matches, with the fields   *)
(* those expressions capture.  MPEG-2 presentation timestamps are pairs    *)
(* (hi, lo) standing for hi * 2^30 + lo, so that values around 2^33 stay   *)
(* exact.                                                                  *)
(***************************************************************************)
EXTENDS Integers, Sequences, FiniteSets, TLC

VARIABLES
    \* ---- download_subtitles: one track's poller (downloader.py:125-257)
    pc,                         \* position of the coroutine
    start_time,                 \* capture start instant (ms)
    end_time,                   \* capture end instant (ms) or NoEnd
    targetduration,             \* ms
    vttfile_start_time,         \* ms
    vttfile_duration,           \* ms
    next_media_sequence_to_dl,
    media_sequence,
    has_new_segments,
    elapsed,                    \* loop.time() - last_reload (ms)
    delay,                      \* argument of the latest asyncio.sleep (ms)
    vttwriter,                  \* the WebVTTMerge object, its output file included
    \* ---- observation of the run (not read by the program)
    nfetches,                   \* playlist fetches completed
    nrecords,                   \* playlist records scanned so far, over all fetches
    nsleeps,                    \* asyncio.sleep calls made
    fetched,                    \* sequence numbers of the segment fetches started
    merged,                     \* sequence numbers handed to convert_and_write
    seg_instant,                \* vttfile_start_time of each convert_and_write call
    terminal,                   \* which terminal condition fired, "" if none
    last_kind,                  \* kind of the record scanned last in this fetch
    next_at_fetch,              \* next_media_sequence_to_dl when this fetch began
    payloads,                   \* the payloads handed to convert_and_write
    carried_start_time,         \* <<the latest program-date-time value plus the
                                \* durations of the segments listed since>>,
                                \* <<>> while no such tag was parsed
    fetched_span,               \* per segment fetch started: its instants
    skipped,                    \* new sequence numbers left out by the start time
    output_file,                \* the file WebVTTMerge.__init__ opened
    \* ---- the directory of the output files, and a timestamp being converted
    files,                      \* the names that existed before (old) and the
                                \* names created by the program (new)
    tsv,                        \* a value, its text, and the text parsed back
    written,                    \* <<name, t>>: track t printed into file name
    \* ---- download_all_subtitles and its tasks (downloader.py:65-105)
    main_pc,                    \* position of download_all_subtitles
    session,                    \* the shared aiohttp.ClientSession: "open" or "closed"
    downloaders                 \* per subtitle track: the state of its task

pollvars == <<pc, start_time, end_time, targetduration, vttfile_start_time,
              vttfile_duration, next_media_sequence_to_dl, media_sequence,
              has_new_segments, elapsed, delay, nfetches, nrecords, nsleeps,
              fetched, merged, seg_instant, terminal, last_kind,
              next_at_fetch, payloads, carried_start_time, fetched_span,
              skipped, output_file>>

othervars == <<files, tsv, written>>

orchvars == <<main_pc, session, downloaders>>

vars == <<pollvars, vttwriter, orchvars, othervars>>

-----------------------------------------------------------------------------
(* Timestamps as text: [[h:]m:]s[.frac]                                    *)

NoHour == 0 - 1

Ts(h, m, s, frac) == [h |-> h, m |-> m, s |-> s, frac |-> frac]

ZeroTs == Ts(NoHour, 0, 0, <<>>)

\* int((m["ms"] or "0").ljust(3, "0")): the first three fraction digits,
\* right-padded with zeros; further digits are matched by \d* and dropped.
ms_ljust(frac) ==
    LET d(i) == IF i <= Len(frac) THEN frac[i] ELSE 0
    IN  100 * d(1) + 10 * d(2) + d(3)

parse_timestamp(timestamp) ==
    ms_ljust(timestamp.frac) + 1000 * (
        timestamp.s + 60 * (
            timestamp.m + 60 * (
                IF timestamp.h = NoHour THEN 0 ELSE timestamp.h)))

\* the milliseconds are printed without the zero padding of {ms1:03}
format_timestamp_ms_unpadded(v) ==
    LET s1  == v \div 1000
        ms1 == v % 1000
        m1  == s1 \div 60
        h1  == m1 \div 60
    IN  Ts(h1, m1 % 60, s1 % 60,
           IF ms1 >= 100 THEN <<ms1 \div 100, (ms1 \div 10) % 10, ms1 % 10>>
           ELSE IF ms1 >= 10 THEN <<ms1 \div 10, ms1 % 10>>
           ELSE <<ms1>>)

\* the divmod chain and the f-string of convert_and_write
format_timestamp(v) ==
    LET s1  == v \div 1000
        ms1 == v % 1000
        m1  == s1 \div 60
        h1  == m1 \div 60
    IN  Ts(h1, m1 % 60, s1 % 60,
           <<ms1 \div 100, (ms1 \div 10) % 10, ms1 % 10>>)

-----------------------------------------------------------------------------
(* MPEG-2 timestamps (90 kHz ticks) as hi * 2^30 + lo                      *)

MPEG2_TIMESTAMP_kHz == 90

TIMESTAMP_BITS == 33

MpegBase == 2^30

Mpeg(hi, lo) == [hi |-> hi, lo |-> lo]

MpegNorm(hi, lo) == Mpeg(hi + (lo \div MpegBase), lo % MpegBase)

MpegZero == Mpeg(0, 0)

\* self.start_mpegtime = None
MpegNone == Mpeg(0, 0 - 1)

MpegLess(a, b) == a.hi < b.hi \/ (a.hi = b.hi /\ a.lo < b.lo)

MpegSub(a, b) == MpegNorm(a.hi - b.hi, a.lo - b.lo)

\* a - n for an integer number of ticks n
MpegSubTicks(a, n) == MpegNorm(a.hi, a.lo - n)

\* a // 90 (floor), as an integer number of milliseconds
MpegToMs(a) ==
    a.hi * (MpegBase \div MPEG2_TIMESTAMP_kHz)
    + ((a.hi * (MpegBase % MPEG2_TIMESTAMP_kHz) + a.lo) \div MPEG2_TIMESTAMP_kHz)

RECURSIVE BitOr(_, _)
BitOr(x, y) ==
    IF x = 0 THEN y
    ELSE IF y = 0 THEN x
    ELSE 2 * BitOr(x \div 2, y \div 2) + (IF x % 2 = 1 \/ y % 2 = 1 THEN 1 ELSE 0)

\* mpegtime | (last_file_mpegtime & ~0x1_ffff_ffff)
WrapHi == 2^(TIMESTAMP_BITS - 30)

overflow_correct(mpegtime, last) ==
    Mpeg(BitOr(mpegtime.hi, last.hi - (last.hi % WrapHi)), mpegtime.lo)

-----------------------------------------------------------------------------
(* WebVTT lines.  k names the expression of vttmerge.py the line matches:  *)
(*   "magic"   first_line_re (WEBVTT)                                      *)
(*   "tsmap"   x_timestamp_map_re; n = 1 when both LOCAL (a) and MPEGTS    *)
(*             (mp) are present, 0 otherwise                               *)
(*   "timing"  cue_timings_re: start a, end b, settings n (0 = none)       *)
(*   "blank"   the empty string                                            *)
(*   "text"    any other line; n tells different texts apart               *)

Line(k, a, b, mp, n) == [k |-> k, a |-> a, b |-> b, mp |-> mp, n |-> n]

Magic == Line("magic", ZeroTs, ZeroTs, MpegZero, 0)

Blank == Line("blank", ZeroTs, ZeroTs, MpegZero, 0)

Text(n) == Line("text", ZeroTs, ZeroTs, MpegZero, n)

TsMap(local, mpegts) == Line("tsmap", local, ZeroTs, mpegts, 1)

TsMapInvalid == Line("tsmap", ZeroTs, ZeroTs, MpegZero, 0)

Timing(a, b, settings) == Line("timing", a, b, MpegZero, settings)

-----------------------------------------------------------------------------
(* WebVTTMerge (vttmerge.py)                                               *)
(* The object is a record.  Its field output is the content of the output  *)
(* file: one entry per line printed, each with the line and, as            *)
(* observation, the step that printed it (org), the number of the          *)
(* convert_and_write call (seg) and, for a rewritten cue timing line, the  *)
(* cue's start and end as parsed from the payload (raw_a, raw_b) and the   *)
(* file_localtime_offset added to them (off).  The                         *)
(* fields ncalls (calls made), accepted (the calls whose payload passed    *)
(* the first-line check), dropped (the cues skipped) and in_dropped (the   *)
(* body loop is between the timing line of a skipped cue and the end of    *)
(* that cue) are observation too; an entry's of_dropped tells that its     *)
(* line was printed while in_dropped.  The field first_nonempty observes   *)
(* the payload of the latest call: the kind of its first non-empty line    *)
(* ("none" when it has no such line).                                      *)

WebVTTMerge(start) ==
    [ start_datetime      |-> start,
      start_mpegtime      |-> MpegNone,
      last_file_mpegtime  |-> MpegZero,
      is_first_file       |-> TRUE,
      last_line_was_empty |-> FALSE,
      output              |-> <<>>,
      ncalls              |-> 0,
      accepted            |-> <<>>,
      dropped             |-> <<>>,
      in_dropped          |-> FALSE,
      first_nonempty      |-> "none" ]

writeln_entry(self, line, org, raw_a, raw_b, off) ==
    [self EXCEPT
        !.output = Append(@, [line |-> line, org |-> org, seg |-> self.ncalls,
                              raw_a |-> raw_a, raw_b |-> raw_b, off |-> off,
                              of_dropped |-> (org = "body" /\ self.in_dropped)]),
        !.last_line_was_empty = (line.k = "blank"),
        !.in_dropped = (@ /\ line.k = "text")]

writeln(self, line, org) == writeln_entry(self, line, org, 0, 0, 0)

\* returns the object and the file's local time offset (ms)
parse_x_timestamp_map(self, m) ==
    LET valid     == m.n = 1
        localtime == IF valid THEN parse_timestamp(m.a) ELSE 0
        mpegtime  == IF ~valid THEN MpegZero
                     ELSE IF MpegLess(m.mp, self.last_file_mpegtime)
                          THEN overflow_correct(m.mp, self.last_file_mpegtime)
                          ELSE m.mp
        start     == IF self.start_mpegtime = MpegNone
                     THEN mpegtime ELSE self.start_mpegtime
    IN  [ self   |-> [self EXCEPT
                        !.last_file_mpegtime = IF valid THEN mpegtime ELSE @,
                        !.start_mpegtime = start],
          offset |-> MpegToMs(MpegSub(mpegtime, start)) - localtime ]

\* (self.start_datetime - file_start_datetime)
\*     // timedelta(milliseconds=1/self.MPEG2_TIMESTAMP_kHz)
\* timedelta keeps whole microseconds: 1/90 ms is stored as 11 us.
timedelta_quotient(delta_ms) ==
    (delta_ms * 1000) \div (1000 \div MPEG2_TIMESTAMP_kHz)

\* no header line is copied
copy_header_line_never(self, line) == self

\* lines 165-166: elif self.is_first_file: self._writeln(line)
copy_header_line(self, line) ==
    IF self.is_first_file THEN writeln(self, line, "header") ELSE self

\* "rest of header": lines [i..] up to and including the first empty line.
\* off = <<>> while file_localtime_offset is None, else <<offset>>.
RECURSIVE header_loop(_, _, _, _, _)
header_loop(self, lines, i, off, file_start_datetime) ==
    IF i > Len(lines) THEN [self |-> self, i |-> i, off |-> off]
    ELSE IF lines[i].k = "blank" THEN [self |-> self, i |-> i + 1, off |-> off]
    ELSE IF lines[i].k = "tsmap" THEN
        LET r  == parse_x_timestamp_map(self, lines[i])
            s2 == IF self.is_first_file
                  THEN [r.self EXCEPT !.start_mpegtime =
                          MpegSubTicks(@, timedelta_quotient(
                              self.start_datetime - file_start_datetime))]
                  ELSE r.self
        IN  header_loop(s2, lines, i + 1, <<r.offset>>, file_start_datetime)
    ELSE header_loop(copy_header_line(self, lines[i]),
                     lines, i + 1, off, file_start_datetime)

\* the start is left as it is
clamp_start_none(cue_start) == cue_start

\* lines 196-200: if cue_start < 0: cue_start = 0
clamp_start(cue_start) == IF cue_start < 0 THEN 0 ELSE cue_start

\* one cue timings line of the body
rewrite_cue(self, line, file_localtime_offset) ==
    LET raw_a     == parse_timestamp(line.a)
        raw_b     == parse_timestamp(line.b)
        cue_start == raw_a + file_localtime_offset
        cue_end   == raw_b + file_localtime_offset
    IN  IF cue_end < 0
        THEN [self EXCEPT !.dropped = Append(@,
                 [seg |-> self.ncalls, raw_a |-> raw_a, raw_b |-> raw_b,
                  off |-> file_localtime_offset]),
                          !.in_dropped = TRUE]
        ELSE writeln_entry(self,
                 Timing(format_timestamp(clamp_start(cue_start)),
                        format_timestamp(cue_end), line.n),
                 "body", raw_a, raw_b, file_localtime_offset)

\* "non-header lines"
RECURSIVE body_loop(_, _, _, _)
body_loop(self, lines, i, file_localtime_offset) ==
    IF i > Len(lines) THEN self
    ELSE body_loop(
            IF lines[i].k = "timing"
            THEN rewrite_cue(self, lines[i], file_localtime_offset)
            ELSE writeln(self, lines[i], "body"),
            lines, i + 1, file_localtime_offset)

\* the separator is printed whatever the last line was
write_separator_always(self) == writeln(self, Blank, "sep")

\* the separator between the header or the previous file and this file's items
write_separator(self) ==
    IF ~self.last_line_was_empty THEN writeln(self, Blank, "sep") ELSE self

\* the flag is left as it was
finish_file_keeps_flag(self) == self

\* line 218
finish_file(self) == [self EXCEPT !.is_first_file = FALSE, !.in_dropped = FALSE]

\* the kind of the first line of lines[i..] that is not empty
RECURSIVE first_nonempty_kind(_, _)
first_nonempty_kind(lines, i) ==
    IF i > Len(lines) THEN "none"
    ELSE IF lines[i].k = "blank" THEN first_nonempty_kind(lines, i + 1)
    ELSE lines[i].k

\* the rejected payload ends the first file all the same
not_a_webvtt_file_ends_file(self) == finish_file(self)

\* "not a WebVTT file": warn and return (lines 141-143)
not_a_webvtt_file(self) == self

convert_and_write(self0, file_contents, file_start_datetime) ==
    LET self == [self0 EXCEPT !.ncalls = @ + 1,
                    !.first_nonempty = first_nonempty_kind(file_contents, 1)]
    IN
    IF file_contents = <<>> \/ file_contents[1].k # "magic"
    THEN not_a_webvtt_file(self)
    ELSE
        LET s0  == [self EXCEPT !.accepted = Append(@, self.ncalls)]
            s1  == IF s0.is_first_file
                   THEN writeln(s0, file_contents[1], "header") ELSE s0
            h   == header_loop(s1, file_contents, 2, <<>>, file_start_datetime)
            off == IF h.off = <<>> THEN 0 ELSE h.off[1]
            s2  == write_separator(h.self)
            s3  == body_loop(s2, file_contents, h.i, off)
        IN  finish_file(s3)

-----------------------------------------------------------------------------
(* Bounds and input values                                                 *)

MaxFetches == 2

MaxRecords == 5

MaxSeq == 1

MaxSegments == 3

MaxElapsed == 6

Sec(n) == n * 1000

\* capture window: --start-time, and --end-time (None when not given)
NoEnd == 0 - 1

StartTime == Sec(10 * 60 + 4)

\* the end time may be the start time itself (--duration 0): nothing in
\* __main__.py asks for a later one
EndTimes == {NoEnd, StartTime, Sec(10 * 60 + 20)}

\* values the playlist text can carry
TargetDurations == {Sec(10)}

ProgramDateTimes == {Sec(10 * 60), Sec(10 * 60 + 20)}

Extinfs == {Sec(10)}

MediaSequences == 0..MaxSeq

\* time that can pass while a response is awaited
ElapsedSteps == {0, Sec(6)}

HMS(h, m, s) == Ts(h, m, s, <<0, 0, 0>>)

\* segment payloads the server can answer with
PayloadCues == <<Magic, Blank,
                 Timing(HMS(0, 0, 1), HMS(0, 0, 2), 0), Text(1), Blank,
                 Timing(HMS(0, 0, 5), HMS(0, 0, 6), 0), Text(2)>>

PayloadMap == <<Magic, TsMap(HMS(0, 0, 10), Mpeg(0, 900000)), Blank,
                Timing(HMS(0, 0, 9), HMS(0, 0, 11), 1), Text(1), Blank>>

SegmentPayloads == {PayloadCues, PayloadMap}

-----------------------------------------------------------------------------
(* Output files (vttmerge.py:54-77).  Name 0 is output_filename, name i in *)
(* 1..LAST_ALTERNATIVE is base-i.suffix.                                   *)

LAST_ALTERNATIVE == 99

FileNames == 0..LAST_ALTERNATIVE

Files(old, new) == [old |-> old, new |-> new]

\* the file is opened in a mode that never raises FileExistsError
exists_never(fs, name) == FALSE

\* open(name, "x") raises FileExistsError
exists(fs, name) == name \in fs.old \cup fs.new

\* the directory after a file was opened for writing under this name
create(fs, name) == Files(fs.old \ {name}, fs.new \cup {name})

\* the object open() returns
OutputFile(name) == [name |-> name, closed |-> FALSE]

NoOutputFile == [name |-> 0 - 1, closed |-> FALSE]

\* WebVTTMerge.close, called by __exit__ when the with block is left
close(file) == [file EXCEPT !.closed = TRUE]

\* the start instant of the next segment after one of duration d
carry(c, d) == IF c = <<>> THEN <<>> ELSE <<c[1] + d>>

NoTsv == [at |-> "none", v |-> 0, text |-> ZeroTs, parsed |-> 0, text2 |-> ZeroTs]

-----------------------------------------------------------------------------
(* The tasks download_all_subtitles creates, one per subtitle track        *)

MaxTracks == 2

Tracks == 1..MaxTracks

\* pc: "none" (no such track in the master playlist), "new" (coroutine
\* created, not started), "fetch" (about to fetch the media playlist),
\* "scan" (going through a fetched playlist), "done" (returned), "failed"
\* (left by an exception), "cancelled" (CancelledError thrown into it).
\* cause: "" or, for a failed task, "own" (its own file or request) or
\* "session" (a request made on the closed session).
\* suffix: the suffix of the track's output_filename.  file: the name of
\* the file its WebVTTMerge opened, NoOutputFile.name before that.
Task(p, cause) ==
    [pc |-> p, cause |-> cause,
     suffix |-> 0, file |-> NoOutputFile.name]

NoTasks == [t \in Tracks |-> Task("none", "")]

finished(task) == task.pc \in {"none", "done", "failed", "cancelled"}

-----------------------------------------------------------------------------
(* download_subtitles (downloader.py:125-257)                              *)
(* pc: "fetch_playlist"  awaiting the playlist text (line 152-153)         *)
(*     "scan"            inside the for loop over the records (line 159)   *)
(*     "fetch_segment"   awaiting a segment payload (line 215-216)         *)
(*     "sleep"           awaiting asyncio.sleep (line 256)                 *)
(*     "stopped"         returned                                          *)
(*     "failed"          left by an exception                              *)
(*     "cancelled"       left by the CancelledError of task.cancel()       *)

Init ==
    /\ pc = "fetch_playlist"
    /\ start_time = StartTime
    /\ end_time \in EndTimes
    /\ targetduration = 0
    /\ vttfile_start_time = start_time
    /\ vttfile_duration = 0
    /\ next_media_sequence_to_dl = 0
    /\ media_sequence = 0
    /\ has_new_segments = FALSE
    /\ elapsed = 0
    /\ delay = 0
    /\ vttwriter = WebVTTMerge(start_time)
    /\ nfetches = 0
    /\ nrecords = 0
    /\ nsleeps = 0
    /\ fetched = <<>>
    /\ merged = <<>>
    /\ seg_instant = <<>>
    /\ terminal = ""
    /\ last_kind = ""
    /\ next_at_fetch = 0
    /\ payloads = <<>>
    /\ carried_start_time = <<>>
    /\ fetched_span = <<>>
    /\ skipped = {}
    /\ output_file = OutputFile(0)
    /\ files = Files({}, {0})
    /\ tsv = NoTsv
    /\ written = {}
    /\ main_pc = "gather"
    /\ session = "open"
    /\ downloaders = NoTasks

\* unchanged by every step that scans one record without downloading
scan_frame == <<orchvars, othervars, start_time, end_time, elapsed, delay, vttwriter, nfetches,
                nsleeps, fetched, merged, seg_instant>>

\* last_reload = loop.time(); the playlist text arrives after dt
FetchPlaylist(dt) ==
    /\ pc = "fetch_playlist"
    /\ nfetches < MaxFetches
    /\ pc' = "scan"
    /\ media_sequence' = 0
    /\ has_new_segments' = FALSE
    /\ elapsed' = dt
    /\ nfetches' = nfetches + 1
    /\ last_kind' = ""
    /\ next_at_fetch' = next_media_sequence_to_dl
    /\ UNCHANGED <<orchvars, othervars, start_time, end_time, targetduration, vttfile_start_time,
                   vttfile_duration, next_media_sequence_to_dl, delay, vttwriter,
                   nrecords, nsleeps, fetched, merged, seg_instant, terminal>>
    /\ carried_start_time' = <<>>
    /\ UNCHANGED <<payloads, fetched_span, skipped, output_file>>

\* session.get raises (raise_for_status, transport error)
FetchPlaylistFails ==
    /\ pc = "fetch_playlist"
    /\ nfetches < MaxFetches
    /\ pc' = "failed"
    /\ UNCHANGED <<orchvars, othervars, start_time, end_time, targetduration, vttfile_start_time,
                   vttfile_duration, next_media_sequence_to_dl, media_sequence,
                   has_new_segments, elapsed, delay, vttwriter, nfetches, nrecords,
                   nsleeps, fetched, merged, seg_instant, terminal, last_kind,
                   next_at_fetch>>
    /\ output_file' = close(output_file)
    /\ UNCHANGED <<payloads, carried_start_time, fetched_span, skipped>>

\* the for loop takes the next match of _media_playlist_re
next_record(kind) ==
    /\ pc = "scan"
    /\ nrecords < MaxRecords
    /\ nrecords' = nrecords + 1
    /\ last_kind' = kind
    /\ UNCHANGED next_at_fetch

ScanTargetDuration(val) ==
    /\ next_record("targetduration")
    /\ targetduration' = val
    /\ UNCHANGED <<pc, vttfile_start_time, vttfile_duration,
                   next_media_sequence_to_dl, media_sequence, has_new_segments,
                   terminal>>
    /\ UNCHANGED scan_frame
    /\ UNCHANGED <<payloads, carried_start_time, fetched_span, skipped, output_file>>

\* EXT-X-MEDIA-SEQUENCE also rewinds next_media_sequence_to_dl
ScanMediaSequence_rewinds(val) ==
    /\ next_record("media_sequence")
    /\ media_sequence' = val
    /\ next_media_sequence_to_dl' = val
    /\ UNCHANGED <<pc, targetduration, vttfile_start_time, vttfile_duration,
                   has_new_segments, terminal>>
    /\ UNCHANGED scan_frame
    /\ UNCHANGED <<payloads, carried_start_time, fetched_span, skipped, output_file>>

ScanMediaSequence(val) ==
    /\ next_record("media_sequence")
    /\ media_sequence' = val
    /\ UNCHANGED <<pc, targetduration, vttfile_start_time, vttfile_duration,
                   next_media_sequence_to_dl, has_new_segments, terminal>>
    /\ UNCHANGED scan_frame
    /\ UNCHANGED <<payloads, carried_start_time, fetched_span, skipped, output_file>>

\* line 188: end_time is not None and vttfile_start_time >= end_time
end_time_reached(instant) == end_time # NoEnd /\ instant >= end_time

\* parsed = <<instant>>, or <<>> when datetime.fromisoformat raises ValueError
ScanProgramDateTime(parsed) ==
    /\ next_record("program_date_time")
    /\ vttfile_start_time' = IF parsed = <<>> THEN vttfile_start_time ELSE parsed[1]
    /\ IF end_time_reached(vttfile_start_time')
       THEN pc' = "stopped" /\ terminal' = "end_time"
       ELSE UNCHANGED <<pc, terminal>>
    /\ UNCHANGED <<targetduration, vttfile_duration, next_media_sequence_to_dl,
                   media_sequence, has_new_segments>>
    /\ UNCHANGED scan_frame
    /\ carried_start_time' = IF parsed = <<>> THEN carried_start_time ELSE parsed
    /\ output_file' = IF end_time_reached(vttfile_start_time')
                      THEN close(output_file) ELSE output_file
    /\ UNCHANGED <<payloads, fetched_span, skipped>>

ScanExtinf(val) ==
    /\ next_record("extinf")
    /\ vttfile_duration' = val
    /\ UNCHANGED <<pc, targetduration, vttfile_start_time,
                   next_media_sequence_to_dl, media_sequence, has_new_segments,
                   terminal>>
    /\ UNCHANGED scan_frame
    /\ UNCHANGED <<payloads, carried_start_time, fetched_span, skipped, output_file>>

\* extinf matches [\d\.]+ : float("1.2.3") raises ValueError, which nothing catches
ScanExtinfNotFloat ==
    /\ next_record("extinf")
    /\ pc' = "failed"
    /\ UNCHANGED <<targetduration, vttfile_start_time, vttfile_duration,
                   next_media_sequence_to_dl, media_sequence, has_new_segments,
                   terminal>>
    /\ UNCHANGED scan_frame
    /\ output_file' = close(output_file)
    /\ UNCHANGED <<payloads, carried_start_time, fetched_span, skipped>>

vttfile_end_time == vttfile_start_time + vttfile_duration

\* off by one: the segment downloaded last counts as new again
is_new_segment_off_by_one == media_sequence >= next_media_sequence_to_dl - 1

\* line 204
is_new_segment == media_sequence >= next_media_sequence_to_dl

\* a segment that ends exactly at the start time is taken too
ends_after_start_or_at == vttfile_end_time >= start_time

\* line 208
ends_after_start == vttfile_end_time > start_time

\* the download is started but next_media_sequence_to_dl is left alone
ScanUrlDownload_no_watermark ==
    /\ next_record("url")
    /\ is_new_segment
    /\ ends_after_start
    /\ Len(fetched) < MaxSegments
    /\ has_new_segments' = TRUE
    /\ pc' = "fetch_segment"
    /\ fetched' = Append(fetched, media_sequence)
    /\ UNCHANGED <<orchvars, othervars, start_time, end_time, targetduration, vttfile_start_time,
                   vttfile_duration, next_media_sequence_to_dl, media_sequence,
                   elapsed, delay, vttwriter, nfetches, nsleeps, merged,
                   seg_instant, terminal>>
    /\ fetched_span' = Append(fetched_span,
           [seq   |-> media_sequence,
            start |-> vttfile_start_time,
            end   |-> vttfile_end_time,
            carried_start |-> carried_start_time,
            carried_end   |-> carry(carried_start_time, vttfile_duration)])
    /\ UNCHANGED <<payloads, carried_start_time, skipped, output_file>>

\* a segment URI with a new sequence number that is to be downloaded
ScanUrlDownload ==
    /\ next_record("url")
    /\ is_new_segment
    /\ ends_after_start
    /\ Len(fetched) < MaxSegments
    /\ next_media_sequence_to_dl' = media_sequence + 1
    /\ has_new_segments' = TRUE
    /\ pc' = "fetch_segment"
    /\ fetched' = Append(fetched, media_sequence)
    /\ UNCHANGED <<orchvars, othervars, start_time, end_time, targetduration, vttfile_start_time,
                   vttfile_duration, media_sequence, elapsed, delay, vttwriter,
                   nfetches, nsleeps, merged, seg_instant, terminal>>
    /\ fetched_span' = Append(fetched_span,
           [seq   |-> media_sequence,
            start |-> vttfile_start_time,
            end   |-> vttfile_end_time,
            carried_start |-> carried_start_time,
            carried_end   |-> carry(carried_start_time, vttfile_duration)])
    /\ UNCHANGED <<payloads, carried_start_time, skipped, output_file>>

\* a segment left out by the start time does not count as new
ScanUrlBeforeStart_not_new ==
    /\ next_record("url")
    /\ is_new_segment
    /\ ~ends_after_start
    /\ next_media_sequence_to_dl' = media_sequence + 1
    /\ media_sequence' = media_sequence + 1
    /\ UNCHANGED <<pc, targetduration, vttfile_start_time, vttfile_duration,
                   terminal, has_new_segments>>
    /\ UNCHANGED scan_frame
    /\ skipped' = skipped \cup {media_sequence}
    /\ carried_start_time' = carry(carried_start_time, vttfile_duration)
    /\ UNCHANGED <<payloads, fetched_span, output_file>>

\* a segment URI with a new sequence number that ends before the start time
ScanUrlBeforeStart ==
    /\ next_record("url")
    /\ is_new_segment
    /\ ~ends_after_start
    /\ next_media_sequence_to_dl' = media_sequence + 1
    /\ has_new_segments' = TRUE
    /\ media_sequence' = media_sequence + 1
    /\ UNCHANGED <<pc, targetduration, vttfile_start_time, vttfile_duration,
                   terminal>>
    /\ UNCHANGED scan_frame
    /\ skipped' = skipped \cup {media_sequence}
    /\ carried_start_time' = carry(carried_start_time, vttfile_duration)
    /\ UNCHANGED <<payloads, fetched_span, output_file>>

\* a segment URI whose sequence number was seen before
ScanUrlAlreadyDownloaded ==
    /\ next_record("url")
    /\ ~is_new_segment
    /\ media_sequence' = media_sequence + 1
    /\ UNCHANGED <<pc, targetduration, vttfile_start_time, vttfile_duration,
                   next_media_sequence_to_dl, has_new_segments, terminal>>
    /\ UNCHANGED scan_frame
    /\ carried_start_time' = carry(carried_start_time, vttfile_duration)
    /\ UNCHANGED <<payloads, fetched_span, skipped, output_file>>

\* the payload arrives after dt: lines 216-234
FetchSegment(vttdata, dt) ==
    /\ pc = "fetch_segment"
    /\ elapsed + dt <= Sec(MaxElapsed)
    /\ elapsed' = elapsed + dt
    /\ vttwriter' = convert_and_write(vttwriter, vttdata, start_time)
    /\ merged' = Append(merged, media_sequence)
    /\ seg_instant' = Append(seg_instant, vttfile_start_time)
    /\ IF end_time_reached(vttfile_end_time)
       THEN pc' = "stopped" /\ terminal' = "end_time"
            /\ UNCHANGED media_sequence
       ELSE pc' = "scan" /\ media_sequence' = media_sequence + 1
            /\ UNCHANGED terminal
    /\ UNCHANGED <<orchvars, othervars, start_time, end_time, targetduration, vttfile_start_time,
                   vttfile_duration, next_media_sequence_to_dl, has_new_segments,
                   delay, nfetches, nrecords, nsleeps, fetched, last_kind,
                   next_at_fetch>>
    /\ payloads' = Append(payloads, vttdata)
    /\ carried_start_time' = carry(carried_start_time, vttfile_duration)
    /\ output_file' = IF end_time_reached(vttfile_end_time)
                      THEN close(output_file) ELSE output_file
    /\ UNCHANGED <<fetched_span, skipped>>

FetchSegmentFails ==
    /\ pc = "fetch_segment"
    /\ pc' = "failed"
    /\ UNCHANGED <<orchvars, othervars, start_time, end_time, targetduration, vttfile_start_time,
                   vttfile_duration, next_media_sequence_to_dl, media_sequence,
                   has_new_segments, elapsed, delay, vttwriter, nfetches, nrecords,
                   nsleeps, fetched, merged, seg_instant, terminal, last_kind,
                   next_at_fetch>>
    /\ output_file' = close(output_file)
    /\ UNCHANGED <<payloads, carried_start_time, fetched_span, skipped>>

\* the end marker is noted but the loop goes on
ScanEndlist_keeps_scanning ==
    /\ next_record("endlist")
    /\ terminal' = "endlist"
    /\ UNCHANGED <<pc, targetduration, vttfile_start_time, vttfile_duration,
                   next_media_sequence_to_dl, media_sequence, has_new_segments>>
    /\ UNCHANGED scan_frame
    /\ UNCHANGED <<payloads, carried_start_time, fetched_span, skipped, output_file>>

ScanEndlist ==
    /\ next_record("endlist")
    /\ pc' = "stopped"
    /\ terminal' = "endlist"
    /\ UNCHANGED <<targetduration, vttfile_start_time, vttfile_duration,
                   next_media_sequence_to_dl, media_sequence, has_new_segments>>
    /\ UNCHANGED scan_frame
    /\ output_file' = close(output_file)
    /\ UNCHANGED <<payloads, carried_start_time, fetched_span, skipped>>

\* kind "error": a warning is logged
ScanError ==
    /\ next_record("error")
    /\ UNCHANGED <<pc, targetduration, vttfile_start_time, vttfile_duration,
                   next_media_sequence_to_dl, media_sequence, has_new_segments,
                   terminal>>
    /\ UNCHANGED scan_frame
    /\ UNCHANGED <<payloads, carried_start_time, fetched_span, skipped, output_file>>

\* kinds "unknown_tag", "comment", "empty_line": no branch of the if chain
ScanOther ==
    /\ next_record("other")
    /\ UNCHANGED <<pc, targetduration, vttfile_start_time, vttfile_duration,
                   next_media_sequence_to_dl, media_sequence, has_new_segments,
                   terminal>>
    /\ UNCHANGED scan_frame
    /\ UNCHANGED <<payloads, carried_start_time, fetched_span, skipped, output_file>>

\* the two intervals swapped
min_reload_interval_swapped ==
    IF has_new_segments THEN targetduration \div 2 ELSE targetduration

\* lines 247-252
min_reload_interval ==
    IF has_new_segments THEN targetduration ELSE targetduration \div 2

\* the difference is passed to asyncio.sleep as it is
sleep_argument_unclamped(interval, time_elapsed) == interval - time_elapsed

\* line 257: max(0, min_reload_interval - time_elapsed)
sleep_argument(interval, time_elapsed) ==
    IF interval - time_elapsed > 0 THEN interval - time_elapsed ELSE 0

\* the playlist text is exhausted: lines 246-257
EndOfPlaylist ==
    /\ pc = "scan"
    /\ pc' = "sleep"
    /\ delay' = sleep_argument(min_reload_interval, elapsed)
    /\ nsleeps' = nsleeps + 1
    /\ UNCHANGED <<orchvars, othervars, start_time, end_time, targetduration, vttfile_start_time,
                   vttfile_duration, next_media_sequence_to_dl, media_sequence,
                   has_new_segments, elapsed, vttwriter, nfetches, nrecords,
                   fetched, merged, seg_instant, terminal, last_kind, next_at_fetch>>
    /\ UNCHANGED <<payloads, carried_start_time, fetched_span, skipped, output_file>>

\* asyncio.sleep returns; while True loops
Wake ==
    /\ pc = "sleep"
    /\ pc' = "fetch_playlist"
    /\ UNCHANGED <<orchvars, othervars, start_time, end_time, targetduration, vttfile_start_time,
                   vttfile_duration, next_media_sequence_to_dl, media_sequence,
                   has_new_segments, elapsed, delay, vttwriter, nfetches, nrecords,
                   nsleeps, fetched, merged, seg_instant, terminal, last_kind,
                   next_at_fetch>>
    /\ UNCHANGED <<payloads, carried_start_time, fetched_span, skipped, output_file>>

\* the CancelledError arrives while a payload is being written
Cancel_inside_convert_and_write ==
    /\ pc = "fetch_segment"
    /\ pc' = "cancelled"
    /\ \E vttdata \in SegmentPayloads :
          vttwriter' = convert_and_write(vttwriter,
                           SubSeq(vttdata, 1, Len(vttdata) - 1), start_time)
    /\ output_file' = close(output_file)
    /\ UNCHANGED <<orchvars, othervars, start_time, end_time, targetduration,
                   vttfile_start_time, vttfile_duration,
                   next_media_sequence_to_dl, media_sequence, has_new_segments,
                   elapsed, delay, nfetches, nrecords, nsleeps, fetched,
                   merged, seg_instant, terminal, last_kind, next_at_fetch,
                   payloads, carried_start_time, fetched_span, skipped>>

\* task.cancel(): CancelledError is raised at the await the coroutine is
\* suspended in (lines 152-153, 215-216, 256); it leaves the with block
Cancel ==
    /\ pc \in {"fetch_playlist", "fetch_segment", "sleep"}
    /\ pc' = "cancelled"
    /\ output_file' = close(output_file)
    /\ UNCHANGED <<orchvars, othervars, start_time, end_time, targetduration,
                   vttfile_start_time, vttfile_duration,
                   next_media_sequence_to_dl, media_sequence, has_new_segments,
                   elapsed, delay, vttwriter, nfetches, nrecords, nsleeps,
                   fetched, merged, seg_instant, terminal, last_kind,
                   next_at_fetch, payloads, carried_start_time, fetched_span,
                   skipped>>

Next ==
    \/ \E dt \in ElapsedSteps : FetchPlaylist(dt)
    \/ FetchPlaylistFails
    \/ \E val \in TargetDurations : ScanTargetDuration(val)
    \/ \E val \in MediaSequences : ScanMediaSequence(val)
    \/ \E t \in ProgramDateTimes : ScanProgramDateTime(<<t>>)
    \/ ScanProgramDateTime(<<>>)
    \/ \E val \in Extinfs : ScanExtinf(val)
    \/ ScanExtinfNotFloat
    \/ ScanUrlDownload
    \/ ScanUrlBeforeStart
    \/ ScanUrlAlreadyDownloaded
    \/ \E vttdata \in SegmentPayloads, dt \in ElapsedSteps : FetchSegment(vttdata, dt)
    \/ FetchSegmentFails
    \/ ScanEndlist
    \/ ScanError
    \/ ScanOther
    \/ EndOfPlaylist
    \/ Wake
    \/ Cancel

Spec == Init /\ [][Next]_vars

-----------------------------------------------------------------------------
(* The poller left to run for ever, with an end time: every request is     *)
(* answered, every segment with a WebVTT payload that has no cue, and      *)
(* every sleep returns.  The counters                                      *)
(* that only observe the run are started over whenever they are used up,   *)
(* so that a run can go on for any number of reloads.                      *)

InitLive == Init /\ end_time > start_time

\* a segment during which nothing is said: the WEBVTT line and nothing more
PayloadNoCues == <<Magic, Blank>>

\* nfetches, nrecords and nsleeps start over before a reload; the program
\* reads none of them
RestartObservation ==
    /\ pc = "fetch_playlist"
    /\ nfetches = MaxFetches \/ nrecords > 0
    /\ nfetches' = 0
    /\ nrecords' = 0
    /\ nsleeps' = 0
    /\ UNCHANGED <<orchvars, othervars, vttwriter, pc, start_time, end_time,
                   targetduration, vttfile_start_time, vttfile_duration,
                   next_media_sequence_to_dl, media_sequence, has_new_segments,
                   elapsed, delay, fetched, merged, seg_instant, terminal,
                   last_kind, next_at_fetch, payloads, carried_start_time,
                   fetched_span, skipped, output_file>>

\* the playlist text arrives at once; it has at most MaxRecords records
FetchPlaylistLive ==
    /\ nrecords = 0
    /\ FetchPlaylist(0)

\* A playlist without EXT-X-MEDIA-SEQUENCE only ever grows: its text lists
\* every segment that an earlier reload listed.  A tag may come next only
\* where the text still has room for the segments it has yet to list.
room_for_tag ==
    MaxRecords - nrecords > next_media_sequence_to_dl - media_sequence

ScanProgramDateTimeLive ==
    /\ room_for_tag
    /\ \E t \in ProgramDateTimes : ScanProgramDateTime(<<t>>)

ScanExtinfLive ==
    /\ room_for_tag
    /\ \E val \in Extinfs : ScanExtinf(val)

ScanEndlistLive ==
    /\ room_for_tag
    /\ ScanEndlist

EndOfPlaylistLive ==
    /\ media_sequence >= next_media_sequence_to_dl
    /\ EndOfPlaylist

\* one record of the playlist text is handled, or the text is exhausted
ScanStepLive ==
    \/ ScanProgramDateTimeLive
    \/ ScanExtinfLive
    \/ ScanUrlDownload
    \/ ScanUrlAlreadyDownloaded
    \/ ScanEndlistLive
    \/ EndOfPlaylistLive

NextLive ==
    \/ FetchPlaylistLive
    \/ ScanStepLive
    \/ FetchSegment(PayloadNoCues, 0)
    \/ Wake
    \/ RestartObservation

SpecLive ==
    /\ InitLive
    /\ [][NextLive]_vars
    /\ WF_vars(FetchPlaylistLive)
    /\ WF_vars(ScanStepLive)
    /\ WF_vars(FetchSegment(PayloadNoCues, 0))
    /\ WF_vars(Wake)
    /\ WF_vars(RestartObservation)

-----------------------------------------------------------------------------
(* The merge engine on its own: any sequence of convert_and_write calls    *)
(* on one WebVTTMerge object.                                              *)

MaxBody == 2

MaxCalls == 2

MapLine == TsMap(HMS(0, 0, 10), Mpeg(0, 900000))

CueLine == Timing(HMS(0, 0, 5), HMS(0, 0, 6), 0)

\* payloads convert_and_write rejects: no line at all, or a first line that is
\* not the WEBVTT line (an empty first line included)
RejectedPayloads ==
    { <<>>, <<Blank, Magic, Blank, CueLine>>,
      <<Text(1), Blank, CueLine>>, <<Blank, CueLine, Magic>> }

\* the lines between the WEBVTT line and the first empty line
HeaderRests == { <<>>, <<MapLine>>, <<Text(1)>>, <<CueLine>> }

\* the lines after the first empty line
BodyLines == { Blank, Text(2), CueLine }

Bodies == UNION { [1..n -> BodyLines] : n \in 0..MaxBody }

MergePayloads ==
    RejectedPayloads
    \cup { <<Magic>> \o h : h \in HeaderRests }
    \cup { <<Magic>> \o h \o <<Blank>> \o b : h \in HeaderRests, b \in Bodies }

InitMerge ==
    /\ pc = "merge"
    /\ start_time = StartTime
    /\ end_time = NoEnd
    /\ targetduration = 0
    /\ vttfile_start_time = start_time
    /\ vttfile_duration = 0
    /\ next_media_sequence_to_dl = 0
    /\ media_sequence = 0
    /\ has_new_segments = FALSE
    /\ elapsed = 0
    /\ delay = 0
    /\ vttwriter = WebVTTMerge(start_time)
    /\ nfetches = 0
    /\ nrecords = 0
    /\ nsleeps = 0
    /\ fetched = <<>>
    /\ merged = <<>>
    /\ seg_instant = <<>>
    /\ terminal = ""
    /\ last_kind = ""
    /\ next_at_fetch = 0
    /\ payloads = <<>>
    /\ carried_start_time = <<>>
    /\ fetched_span = <<>>
    /\ skipped = {}
    /\ output_file = OutputFile(0)
    /\ files = Files({}, {0})
    /\ tsv = NoTsv
    /\ written = {}
    /\ main_pc = "gather"
    /\ session = "open"
    /\ downloaders = NoTasks

\* vttwriter.convert_and_write(vttdata, start_time, vtt_log_label)
MergeCall(vttdata) ==
    /\ pc = "merge"
    /\ vttwriter.ncalls < MaxCalls
    /\ vttwriter' = convert_and_write(vttwriter, vttdata, start_time)
    /\ UNCHANGED <<pollvars, orchvars, othervars>>

NextMerge == \E vttdata \in MergePayloads : MergeCall(vttdata)

SpecMerge == InitMerge /\ [][NextMerge]_vars

-----------------------------------------------------------------------------
(* The merge engine fed with payloads of one cue each, every payload with  *)
(* an X-TIMESTAMP-MAP line whose MPEGTS value may lie on either side of    *)
(* the 33-bit wrap.  LOCAL is 00:00:10 throughout, so that the first       *)
(* payload's offset is -10 s.  The header has the X-TIMESTAMP-MAP line     *)
(* alone, after a text line, or before a line that looks like cue timings. *)

\* 10 s and 20 s of 90 kHz ticks, and 10 s before the counter wraps at 2^33
MpegtsValues ==
    { Mpeg(0, 900000), Mpeg(0, 1800000), Mpeg(WrapHi - 1, MpegBase - 900000) }

\* cues that end before, at and after 10 s, with and without settings
Cues ==
    { Timing(HMS(0, 0, 5), HMS(0, 0, 6), 0),
      Timing(HMS(0, 0, 9), HMS(0, 0, 10), 0),
      Timing(HMS(0, 0, 9), HMS(0, 0, 11), 1),
      Timing(HMS(0, 0, 12), HMS(0, 0, 13), 0),
      Timing(HMS(0, 0, 12), HMS(0, 0, 11), 0) }

\* the header lines after the WEBVTT line, given the X-TIMESTAMP-MAP line
CueHeaders(map) == { <<map>>, <<Text(1), map>>, <<map, CueLine>> }

CuePayloads ==
    { <<Text(1), Magic, Blank>> }
    \cup UNION { { <<Magic>> \o h \o <<Blank, cue, Text(2)>> :
                     h \in CueHeaders(TsMap(HMS(0, 0, 10), mp)) } :
                 mp \in MpegtsValues, cue \in Cues }

InitCues ==
    /\ pc = "cues"
    /\ start_time = StartTime
    /\ end_time = NoEnd
    /\ targetduration = 0
    /\ vttfile_start_time = start_time
    /\ vttfile_duration = 0
    /\ next_media_sequence_to_dl = 0
    /\ media_sequence = 0
    /\ has_new_segments = FALSE
    /\ elapsed = 0
    /\ delay = 0
    /\ vttwriter = WebVTTMerge(start_time)
    /\ nfetches = 0
    /\ nrecords = 0
    /\ nsleeps = 0
    /\ fetched = <<>>
    /\ merged = <<>>
    /\ seg_instant = <<>>
    /\ terminal = ""
    /\ last_kind = ""
    /\ next_at_fetch = 0
    /\ payloads = <<>>
    /\ carried_start_time = <<>>
    /\ fetched_span = <<>>
    /\ skipped = {}
    /\ output_file = OutputFile(0)
    /\ files = Files({}, {0})
    /\ tsv = NoTsv
    /\ written = {}
    /\ main_pc = "gather"
    /\ session = "open"
    /\ downloaders = NoTasks

\* vttwriter.convert_and_write(vttdata, start_time, vtt_log_label)
CueCall(vttdata) ==
    /\ pc = "cues"
    /\ vttwriter.ncalls < MaxCalls
    /\ vttwriter' = convert_and_write(vttwriter, vttdata, start_time)
    /\ payloads' = Append(payloads, vttdata)
    /\ UNCHANGED <<orchvars, othervars, pc, start_time, end_time,
                   targetduration, vttfile_start_time, vttfile_duration,
                   next_media_sequence_to_dl, media_sequence, has_new_segments,
                   elapsed, delay, nfetches, nrecords, nsleeps, fetched,
                   merged, seg_instant, terminal, last_kind, next_at_fetch,
                   carried_start_time, fetched_span, skipped, output_file>>

NextCues == \E vttdata \in CuePayloads : CueCall(vttdata)

SpecCues == InitCues /\ [][NextCues]_vars

-----------------------------------------------------------------------------
(* WebVTTMerge.__init__ and close on their own (vttmerge.py:42-77): the    *)
(* output file is created in a directory that holds any files already      *)
(* pc: "open" (in __init__), "opened", "open_failed" (__init__ raised),    *)
(* "closed"                                                                *)

\* names that can be missing from an otherwise filled directory
Holes == {0, 1, 2, 50, LAST_ALTERNATIVE}

\* the directories the constructor is run in
Directories ==
    { Files((0..(k - 1)) \ h, {}) : k \in 0..(LAST_ALTERNATIVE + 1), h \in SUBSET Holes }

\* for i in range(1, 100): the first i whose file can be created, or
\* LAST_ALTERNATIVE + 1 when the loop runs out
RECURSIVE first_free(_, _)
first_free(fs, i) ==
    IF i > LAST_ALTERNATIVE THEN i
    ELSE IF ~exists(fs, i) THEN i
    ELSE first_free(fs, i + 1)

\* the name __init__ opens, or LAST_ALTERNATIVE + 1 when it raises exc
opened_name(fs) == IF ~exists(fs, 0) THEN 0 ELSE first_free(fs, 1)

InitOpen ==
    /\ pc = "open"
    /\ start_time = StartTime
    /\ end_time = NoEnd
    /\ targetduration = 0
    /\ vttfile_start_time = start_time
    /\ vttfile_duration = 0
    /\ next_media_sequence_to_dl = 0
    /\ media_sequence = 0
    /\ has_new_segments = FALSE
    /\ elapsed = 0
    /\ delay = 0
    /\ vttwriter = WebVTTMerge(start_time)
    /\ nfetches = 0
    /\ nrecords = 0
    /\ nsleeps = 0
    /\ fetched = <<>>
    /\ merged = <<>>
    /\ seg_instant = <<>>
    /\ terminal = ""
    /\ last_kind = ""
    /\ next_at_fetch = 0
    /\ payloads = <<>>
    /\ carried_start_time = <<>>
    /\ fetched_span = <<>>
    /\ skipped = {}
    /\ output_file = NoOutputFile
    /\ files \in Directories
    /\ tsv = NoTsv
    /\ written = {}
    /\ main_pc = "gather"
    /\ session = "open"
    /\ downloaders = NoTasks

open_frame == <<start_time, end_time, targetduration, vttfile_start_time,
                vttfile_duration, next_media_sequence_to_dl, media_sequence,
                has_new_segments, elapsed, delay, nfetches, nrecords, nsleeps,
                fetched, merged, seg_instant, terminal, last_kind,
                next_at_fetch, payloads, carried_start_time, fetched_span,
                skipped, vttwriter, orchvars, tsv, written>>

\* lines 54-66: one of the opens succeeds
OpenOutput ==
    /\ pc = "open"
    /\ opened_name(files) <= LAST_ALTERNATIVE
    /\ files' = create(files, opened_name(files))
    /\ output_file' = OutputFile(opened_name(files))
    /\ pc' = "opened"
    /\ UNCHANGED open_frame

\* line 68: raise exc
OpenOutputFails ==
    /\ pc = "open"
    /\ opened_name(files) > LAST_ALTERNATIVE
    /\ pc' = "open_failed"
    /\ UNCHANGED <<files, output_file, open_frame>>

\* lines 70-77
CloseOutput ==
    /\ pc = "opened"
    /\ output_file' = close(output_file)
    /\ pc' = "closed"
    /\ UNCHANGED <<files, open_frame>>

NextOpen == OpenOutput \/ OpenOutputFails \/ CloseOutput

SpecOpen == InitOpen /\ [][NextOpen]_vars

-----------------------------------------------------------------------------
(* The timestamp conversions on their own: a cue time in milliseconds is   *)
(* printed as convert_and_write prints it (vttmerge.py:203-212), parsed    *)
(* by _parse_timestamp (86-96) and printed again.                          *)

\* milliseconds from 0 up to 24 h, around every carry of the divmod chain
TsValues ==
    { ((h * 60 + m) * 60 + s) * 1000 + ms :
        h \in {0, 1, 9, 10, 23}, m \in {0, 1, 59}, s \in {0, 1, 59},
        ms \in {0, 1, 9, 10, 99, 100, 999} }

InitTs ==
    /\ pc = "ts"
    /\ start_time = StartTime
    /\ end_time = NoEnd
    /\ targetduration = 0
    /\ vttfile_start_time = start_time
    /\ vttfile_duration = 0
    /\ next_media_sequence_to_dl = 0
    /\ media_sequence = 0
    /\ has_new_segments = FALSE
    /\ elapsed = 0
    /\ delay = 0
    /\ vttwriter = WebVTTMerge(start_time)
    /\ nfetches = 0
    /\ nrecords = 0
    /\ nsleeps = 0
    /\ fetched = <<>>
    /\ merged = <<>>
    /\ seg_instant = <<>>
    /\ terminal = ""
    /\ last_kind = ""
    /\ next_at_fetch = 0
    /\ payloads = <<>>
    /\ carried_start_time = <<>>
    /\ fetched_span = <<>>
    /\ skipped = {}
    /\ output_file = OutputFile(0)
    /\ files = Files({}, {0})
    /\ tsv \in { [NoTsv EXCEPT !.at = "value", !.v = v] : v \in TsValues }
    /\ written = {}
    /\ main_pc = "gather"
    /\ session = "open"
    /\ downloaders = NoTasks

FormatTs ==
    /\ tsv.at = "value"
    /\ tsv' = [tsv EXCEPT !.at = "text", !.text = format_timestamp(tsv.v)]
    /\ UNCHANGED <<pollvars, vttwriter, orchvars, files, written>>

ParseTs ==
    /\ tsv.at = "text"
    /\ tsv' = [tsv EXCEPT !.at = "parsed", !.parsed = parse_timestamp(tsv.text)]
    /\ UNCHANGED <<pollvars, vttwriter, orchvars, files, written>>

FormatTsAgain ==
    /\ tsv.at = "parsed"
    /\ tsv' = [tsv EXCEPT !.at = "text2", !.text2 = format_timestamp(tsv.parsed)]
    /\ UNCHANGED <<pollvars, vttwriter, orchvars, files, written>>

NextTs == FormatTs \/ ParseTs \/ FormatTsAgain

SpecTs == InitTs /\ [][NextTs]_vars

-----------------------------------------------------------------------------
(* Properties of the poller, checked under Spec                            *)

Range(seq) == { seq[i] : i \in 1..Len(seq) }

output == vttwriter.output

\* C1: each media sequence number's payload is fetched at most once and
\* handed to convert_and_write at most once, whatever the playlists list.
C1_AtMostOnce ==
    /\ \A i, j \in 1..Len(fetched) : i # j => fetched[i] # fetched[j]
    /\ \A i, j \in 1..Len(merged) : i # j => merged[i] # merged[j]

\* a later fetch listed a downloaded sequence number again, as its latest
\* record, and nothing was downloaded for it
C1_Witness ==
    /\ pc = "scan"
    /\ nfetches >= 2
    /\ last_kind = "url"
    /\ ~has_new_segments
    /\ (media_sequence - 1) \in Range(fetched)
    /\ Len(fetched) = Len(merged)

\* C2: with no time elapsed, the delay after a fetch is at least
\* targetduration when the fetch brought new sequence numbers (always so for
\* a first fetch that lists a segment) and at least half of it otherwise.
C2_ReloadDelayLowerBound ==
    (pc = "sleep" /\ elapsed = 0) =>
        /\ IF next_media_sequence_to_dl > next_at_fetch
           THEN delay >= targetduration
           ELSE 2 * delay >= targetduration
        /\ (nfetches = 1 /\ last_kind = "url") => delay >= targetduration

\* the second fetch of an unchanged playlist: half the target duration
C2_Witness ==
    /\ pc = "sleep"
    /\ elapsed = 0
    /\ nfetches = 2
    /\ last_kind = "url"
    /\ next_at_fetch > 0
    /\ next_media_sequence_to_dl = next_at_fetch
    /\ targetduration = Sec(10)
    /\ delay = Sec(5)

\* C3: one asyncio.sleep per fetch that ends without a terminal condition,
\* none after a fetch in which ENDLIST or the end time fired; the poller has
\* then returned and takes no further step.
C3_SleepPerFetch ==
    /\ pc \in {"fetch_playlist", "sleep"} => nsleeps = nfetches
    /\ pc \in {"scan", "fetch_segment"} => nsleeps = nfetches - 1
    /\ terminal # "" => /\ pc = "stopped"
                        /\ nsleeps = nfetches - 1
                        /\ ~ENABLED Next
    /\ pc = "stopped" => terminal # ""

\* the first fetch lists a segment that is downloaded and then ENDLIST
C3_Witness ==
    /\ terminal = "endlist"
    /\ nfetches = 1
    /\ nsleeps = 0
    /\ Len(merged) >= 1

\* C7: segments are fetched and merged one at a time, in strictly ascending
\* order of sequence number over the whole run.
C7_AscendingOneAtATime ==
    /\ \A i, j \in 1..Len(fetched) : i < j => fetched[i] < fetched[j]
    /\ Len(merged) <= Len(fetched)
    /\ merged = SubSeq(fetched, 1, Len(merged))
    /\ Len(fetched) = Len(merged) +
          (IF pc = "fetch_segment" \/ (pc \in {"failed", "cancelled"}
                                       /\ last_kind = "url"
                                       /\ Len(fetched) > Len(merged))
           THEN 1 ELSE 0)
    /\ pc \in {"fetch_playlist", "scan", "sleep", "stopped"}
          => Len(fetched) = Len(merged)

\* two segments merged in different fetches
C7_Witness ==
    /\ nfetches >= 2
    /\ Len(merged) >= 2
    /\ next_at_fetch = merged[1] + 1

\* C8: next_media_sequence_to_dl starts at 0, never decreases, and changes
\* only when a segment URI with a sequence number at or above it is scanned,
\* to that number plus one.
C8_WatermarkMonotonic ==
    /\ next_media_sequence_to_dl = 0
    /\ [][ /\ next_media_sequence_to_dl' >= next_media_sequence_to_dl
           /\ next_media_sequence_to_dl' # next_media_sequence_to_dl =>
                /\ pc = "scan"
                /\ last_kind' = "url"
                /\ media_sequence >= next_media_sequence_to_dl
                /\ next_media_sequence_to_dl' = media_sequence + 1 ]_vars

\* a later fetch carried a lower EXT-X-MEDIA-SEQUENCE
C8_Witness ==
    /\ nfetches >= 2
    /\ last_kind = "media_sequence"
    /\ media_sequence < next_media_sequence_to_dl
    /\ next_media_sequence_to_dl = next_at_fetch

within_1ms(x, y) == x - y <= 1 /\ y - x <= 1

\* the segment start instant of the call that wrote or dropped a cue
instant_of(seg) == seg_instant[seg]

\* C4: for a segment whose start instant comes from a program-date-time
\* tag, a cue timing line of the output carries the cue's absolute instants
\* (segment start + cue time) minus the capture start.
C4_CueTimesFromProgramDateTime ==
    \A i \in 1..Len(output) :
        LET e == output[i] IN
        ( /\ e.line.k = "timing"
          /\ e.org = "body"
          /\ instant_of(e.seg) \in ProgramDateTimes
          /\ instant_of(e.seg) + e.raw_b >= start_time )
        => /\ within_1ms(parse_timestamp(e.line.b),
                         instant_of(e.seg) + e.raw_b - start_time)
           /\ instant_of(e.seg) + e.raw_a >= start_time
                 => within_1ms(parse_timestamp(e.line.a),
                               instant_of(e.seg) + e.raw_a - start_time)

\* C5: the output has a timing line for exactly the cues whose absolute end
\* instant is not before the capture start.
C5_CuesSelectedByAbsoluteEnd ==
    /\ \A i \in 1..Len(output) :
          LET e == output[i] IN
          (e.line.k = "timing" /\ e.org = "body"
             /\ instant_of(e.seg) \in ProgramDateTimes)
          => instant_of(e.seg) + e.raw_b >= start_time
    /\ \A i \in 1..Len(vttwriter.dropped) :
          LET d == vttwriter.dropped[i] IN
          instant_of(d.seg) \in ProgramDateTimes
          => instant_of(d.seg) + d.raw_b < start_time

\* C12: a cancellation takes effect only while the coroutine awaits a
\* playlist, a segment payload or the sleep, and it writes nothing; the
\* output changes only by one whole convert_and_write call on a payload
\* that arrived, and the output file is closed once the coroutine is left.
C12_CancelAtSuspensionPoints ==
    [][ /\ (pc # "cancelled" /\ pc' = "cancelled") =>
              /\ pc \in {"fetch_playlist", "fetch_segment", "sleep"}
              /\ vttwriter' = vttwriter
              /\ merged' = merged
        /\ vttwriter' # vttwriter =>
              /\ pc = "fetch_segment"
              /\ pc' \in {"scan", "stopped"}
              /\ merged' = Append(merged, media_sequence)
              /\ Len(payloads') = Len(payloads) + 1
              /\ vttwriter' = convert_and_write(vttwriter,
                                  payloads'[Len(payloads')], start_time)
        /\ output_file'.closed <=> pc' \in {"stopped", "failed", "cancelled"}
      ]_vars

\* cancelled while the second segment's payload was awaited
C12_Witness ==
    /\ pc = "cancelled"
    /\ Len(fetched) = 2
    /\ Len(merged) = 1
    /\ output # <<>>
    /\ output_file.closed

\* C15: the start instant the poller holds for a fetched segment is the
\* latest program-date-time value advanced by the durations of the
\* segments listed since that tag, and the start-time filter and the
\* end-time check use the instants derived from it.
C15_StartInstantCarriedForward ==
    \A k \in 1..Len(fetched_span) :
        fetched_span[k].carried_start # <<>> =>
            /\ fetched_span[k].start = fetched_span[k].carried_start[1]
            /\ fetched_span[k].end = fetched_span[k].carried_end[1]

\* the minimum reload interval the novelty of sequence numbers calls for
interval_by_novelty ==
    IF next_media_sequence_to_dl > next_at_fetch
    THEN targetduration ELSE targetduration \div 2

\* C16: the minimum interval is targetduration after a fetch that listed a
\* sequence number at or above next_media_sequence_to_dl, also when the
\* start time left every such segment out, and half of it only after a
\* fetch that listed none.
C16_IntervalBySequenceNovelty ==
    /\ pc \in {"scan", "fetch_segment", "sleep"} =>
          (has_new_segments <=> next_media_sequence_to_dl > next_at_fetch)
    /\ pc = "sleep" => delay = sleep_argument(interval_by_novelty, elapsed)

\* a fetch whose only new segment ended before the start time: full interval
C16_Witness ==
    /\ pc = "sleep"
    /\ fetched = <<>>
    /\ skipped # {}
    /\ next_media_sequence_to_dl > next_at_fetch
    /\ targetduration = Sec(10)
    /\ elapsed = 0
    /\ delay = Sec(10)

\* C17: the delay is max(0, minimum interval - elapsed time) and never
\* negative, so that the time from the start of a playlist fetch to the end
\* of the sleep is at least the minimum interval, itself at least half the
\* target duration.
C17_DelayClampedAtZero ==
    pc = "sleep" =>
        /\ delay >= 0
        /\ delay = (IF min_reload_interval > elapsed
                    THEN min_reload_interval - elapsed ELSE 0)
        /\ elapsed + delay >= min_reload_interval
        /\ 2 * min_reload_interval >= targetduration
        /\ 2 * (elapsed + delay) >= targetduration

\* handling took longer than half the target duration and the playlist had
\* nothing new: no delay at all
C17_Witness ==
    /\ pc = "sleep"
    /\ targetduration = Sec(10)
    /\ ~has_new_segments
    /\ elapsed > min_reload_interval
    /\ delay = 0

\* C18: a segment is fetched only if it ends strictly after the start time,
\* by the instants the poller holds and by the program-date-time carried
\* forward alike; a new segment left out by the start time is never
\* fetched, and its sequence number is below next_media_sequence_to_dl from
\* then on.
C18_FetchedEndsAfterStart ==
    /\ \A k \in 1..Len(fetched_span) :
          /\ fetched_span[k].end > start_time
          /\ fetched_span[k].carried_end # <<>> =>
                fetched_span[k].carried_end[1] > start_time
          /\ fetched_span[k].seq = fetched[k]
    /\ Len(fetched_span) = Len(fetched)
    /\ skipped \cap Range(fetched) = {}
    /\ \A n \in skipped : n < next_media_sequence_to_dl

\* a later fetch lists a sequence number that the start time left out
C18_Witness ==
    /\ pc = "scan"
    /\ nfetches = 2
    /\ last_kind = "url"
    /\ ~has_new_segments
    /\ (media_sequence - 1) \in skipped
    /\ next_media_sequence_to_dl = next_at_fetch

\* C19: with an end time, a segment that ends at or past it, by the
\* program-date-time carried forward, is the last one fetched; no segment
\* that starts at or past it is fetched; and a program-date-time tag at or
\* past it stops the poller before anything more is fetched.
C19_NothingFetchedPastEndTime ==
    end_time # NoEnd =>
        /\ \A k \in 1..Len(fetched_span) :
              fetched_span[k].carried_start # <<>> =>
                 /\ fetched_span[k].carried_start[1] < end_time
                 /\ k < Len(fetched_span) =>
                       fetched_span[k].carried_end[1] < end_time
        /\ \A k \in 1..(Len(fetched_span) - 1) :
              fetched_span[k].end < end_time
        /\ (vttfile_start_time >= end_time /\ last_kind = "program_date_time")
              => pc = "stopped"

\* a segment was listed and fetched that, by the program-date-time carried
\* forward, starts or ends at or past the end time
listed_past_end_time ==
    /\ end_time # NoEnd
    /\ \E k \in 1..Len(fetched_span) :
          /\ fetched_span[k].carried_start # <<>>
          /\ fetched_span[k].carried_end[1] >= end_time

\* C20: when every request and sleep completes, the poller stops once the
\* playlist has listed ENDLIST, and with an end time it stops once a listed
\* segment starts or ends at or past the end time.
C20_EventuallyStopped ==
    (listed_past_end_time \/ terminal = "endlist") ~> (pc = "stopped")

\* no program-date-time value has been assigned: every value of
\* ProgramDateTimes differs from the start time that vttfile_start_time
\* has from line 142 on
no_program_date_time_seen == vttfile_start_time = start_time

\* C24: as long as no program-date-time tag has been seen, no segment with
\* a new sequence number is left out, every one listed is fetched and
\* merged, and the poller does not stop for the end time.
C24_NoTagNoSkip ==
    no_program_date_time_seen =>
        /\ skipped = {}
        /\ terminal # "end_time"
        /\ pc \in {"scan", "sleep"} => merged = fetched

\* C25: a record of kind "error", or a program-date-time tag whose value
\* datetime.fromisoformat does not accept, leaves the poller in the scan
\* with next_media_sequence_to_dl, media_sequence, vttfile_start_time,
\* vttfile_duration, targetduration and has_new_segments as they were.
C25_MalformedLineChangesNothing ==
    [][ (ScanError \/ ScanProgramDateTime(<<>>)) =>
           /\ pc' = pc
           /\ UNCHANGED <<next_media_sequence_to_dl, media_sequence,
                          vttfile_start_time, vttfile_duration,
                          targetduration, has_new_segments, terminal>> ]_vars

-----------------------------------------------------------------------------
(* download_all_subtitles under asyncio.run (downloader.py:65-105,         *)
(* __main__.py:143-147): the session, the tasks and asyncio.gather         *)
(*                                                                         *)
(* main_pc: "master" (fetching the master playlist), "gather" (awaiting    *)
(* asyncio.gather), "raised" / "returned" (gather or the master request    *)
(* raised / gather returned; still inside `async with session`),           *)
(* "error" / "finished" (download_all_subtitles left by the exception /    *)
(* returned), "exited" (asyncio.run has cancelled what was left).          *)

\* downloader.py:17-27, 136-138: the suffixes the tracks of one master
\* playlist can have
Suffixes == {0, 1}

\* lines 134-139: the names of suffix s are s * 100 + i, i = 0 for
\* output_filename and i in 1..99 for its alternatives
output_filename(s) == s * (LAST_ALTERNATIVE + 1)

names_of(s) == { output_filename(s) + i : i \in FileNames }

\* the directory as WebVTTMerge.__init__ of a track with suffix s meets it:
\* the names of that suffix, counted from output_filename
seen_from(fs, s) ==
    Files({ n - output_filename(s) : n \in fs.old \cap names_of(s) },
          { n - output_filename(s) : n \in fs.new \cap names_of(s) })

\* the directory download_all_subtitles starts in: empty, or with a file
\* under the output_filename of suffix 0 left by an earlier run
OrchDirectories == { Files({}, {}), Files({output_filename(0)}, {}) }

InitOrch ==
    /\ pc = "orch"
    /\ start_time = StartTime
    /\ end_time = NoEnd
    /\ targetduration = 0
    /\ vttfile_start_time = start_time
    /\ vttfile_duration = 0
    /\ next_media_sequence_to_dl = 0
    /\ media_sequence = 0
    /\ has_new_segments = FALSE
    /\ elapsed = 0
    /\ delay = 0
    /\ vttwriter = WebVTTMerge(start_time)
    /\ nfetches = 0
    /\ nrecords = 0
    /\ nsleeps = 0
    /\ fetched = <<>>
    /\ merged = <<>>
    /\ seg_instant = <<>>
    /\ terminal = ""
    /\ last_kind = ""
    /\ next_at_fetch = 0
    /\ payloads = <<>>
    /\ carried_start_time = <<>>
    /\ fetched_span = <<>>
    /\ skipped = {}
    /\ output_file = OutputFile(0)
    /\ files \in OrchDirectories
    /\ tsv = NoTsv
    /\ written = {}
    /\ main_pc = "master"
    /\ session = "open"
    /\ downloaders = NoTasks

\* lines 79-105: the master playlist names n subtitle tracks; one coroutine
\* is created for each and handed to asyncio.gather.  Each track's language
\* and characteristics give its suffix (lines 134-139), and nothing keeps
\* two tracks from having the same one
FetchMasterPlaylist(n) ==
    /\ main_pc = "master"
    /\ main_pc' = "gather"
    /\ \E sfx \in [Tracks -> Suffixes] :
          downloaders' = [t \in Tracks |->
                             IF t <= n
                             THEN [Task("new", "") EXCEPT !.suffix = sfx[t]]
                             ELSE downloaders[t]]
    /\ UNCHANGED <<session, pollvars, vttwriter, othervars>>

\* lines 79-80 raising (raise_for_status=True)
FetchMasterPlaylistFails ==
    /\ main_pc = "master"
    /\ main_pc' = "raised"
    /\ UNCHANGED <<session, downloaders, pollvars, vttwriter, othervars>>

\* a step of the task of track t
task_step(t, task) ==
    /\ main_pc \notin {"master", "exited"}
    /\ downloaders' = [downloaders EXCEPT ![t] = task]
    /\ UNCHANGED <<main_pc, session, pollvars, vttwriter, tsv>>

\* the output file is opened for writing under output_filename whether or
\* not a file of that name exists
TrackOpenOutput_overwrites(t) ==
    /\ downloaders[t].pc = "new"
    /\ files' = create(files, output_filename(downloaders[t].suffix))
    /\ task_step(t, [downloaders[t] EXCEPT
                        !.pc = "fetch",
                        !.file = output_filename(downloaders[t].suffix)])
    /\ UNCHANGED written

\* downloader.py:134-146, vttmerge.py:54-66: the output file is created
\* under the first name of the track's suffix that no file has.  No await
\* lies between the start of the coroutine and the end of __init__, so no
\* other task runs in between
TrackOpenOutput(t) ==
    LET task == downloaders[t]
        i == opened_name(seen_from(files, task.suffix))
    IN  /\ task.pc = "new"
        /\ i <= LAST_ALTERNATIVE
        /\ files' = create(files, output_filename(task.suffix) + i)
        /\ task_step(t, [task EXCEPT
                            !.pc = "fetch",
                            !.file = output_filename(task.suffix) + i])
        /\ UNCHANGED written

\* vttmerge.py:54-68: open raises and no output file is created
TrackOpenOutputFails(t) ==
    /\ downloaders[t].pc = "new"
    /\ task_step(t, [downloaders[t] EXCEPT !.pc = "failed", !.cause = "own"])
    /\ UNCHANGED <<files, written>>

\* downloader.py:151-153
TrackFetchPlaylist(t) ==
    /\ downloaders[t].pc = "fetch"
    /\ session = "open"
    /\ task_step(t, [downloaders[t] EXCEPT !.pc = "scan"])
    /\ UNCHANGED <<files, written>>

\* downloader.py:215-221: the segment is fetched and convert_and_write
\* prints it into the file of the track's own WebVTTMerge
TrackFetchSegment(t) ==
    /\ downloaders[t].pc = "scan"
    /\ session = "open"
    /\ written' = written \cup {<<downloaders[t].file, t>>}
    /\ task_step(t, downloaders[t])
    /\ UNCHANGED files

\* downloader.py:152, 215: the request raises on the open session
TrackRequestFails(t) ==
    /\ downloaders[t].pc \in {"fetch", "scan"}
    /\ session = "open"
    /\ task_step(t, [downloaders[t] EXCEPT !.pc = "failed", !.cause = "own"])
    /\ UNCHANGED <<files, written>>

\* downloader.py:152, 215: the request is made after the session was closed
TrackRequestOnClosedSession(t) ==
    /\ downloaders[t].pc \in {"fetch", "scan"}
    /\ session = "closed"
    /\ task_step(t, [downloaders[t] EXCEPT !.pc = "failed", !.cause = "session"])
    /\ UNCHANGED <<files, written>>

\* downloader.py:246-257: asyncio.sleep, then the next iteration
TrackSleep(t) ==
    /\ downloaders[t].pc = "scan"
    /\ task_step(t, [downloaders[t] EXCEPT !.pc = "fetch"])
    /\ UNCHANGED <<files, written>>

\* downloader.py:188-191, 223-228, 236-239: a terminal condition
TrackReturn(t) ==
    /\ downloaders[t].pc = "scan"
    /\ task_step(t, [downloaders[t] EXCEPT !.pc = "done"])
    /\ UNCHANGED <<files, written>>

\* line 105: asyncio.gather without return_exceptions passes on the first
\* exception of any task as soon as that task has failed
GatherRaises ==
    /\ main_pc = "gather"
    /\ \E t \in Tracks : downloaders[t].pc = "failed"
    /\ main_pc' = "raised"
    /\ UNCHANGED <<session, downloaders, pollvars, vttwriter, othervars>>

\* line 105: every task has returned
GatherReturns ==
    /\ main_pc = "gather"
    /\ \A t \in Tracks : downloaders[t].pc \in {"none", "done"}
    /\ main_pc' = "returned"
    /\ UNCHANGED <<session, downloaders, pollvars, vttwriter, othervars>>

\* lines 71-77: leaving `async with aiohttp.ClientSession(...)`
SessionExit ==
    /\ main_pc \in {"raised", "returned"}
    /\ session' = "closed"
    /\ main_pc' = IF main_pc = "raised" THEN "error" ELSE "finished"
    /\ UNCHANGED <<downloaders, pollvars, vttwriter, othervars>>

\* __main__.py:143-147: asyncio.run, left by the exception, cancels every
\* task that is still pending before it closes the loop
RunCancelsTasks ==
    /\ main_pc = "error"
    /\ main_pc' = "exited"
    /\ downloaders' = [t \in Tracks |->
                          IF finished(downloaders[t]) THEN downloaders[t]
                          ELSE [downloaders[t] EXCEPT !.pc = "cancelled"]]
    /\ UNCHANGED <<session, pollvars, vttwriter, othervars>>

NextOrch ==
    \/ \E n \in 0..MaxTracks : FetchMasterPlaylist(n)
    \/ FetchMasterPlaylistFails
    \/ \E t \in Tracks : TrackOpenOutput(t)
    \/ \E t \in Tracks : TrackOpenOutputFails(t)
    \/ \E t \in Tracks : TrackFetchPlaylist(t)
    \/ \E t \in Tracks : TrackFetchSegment(t)
    \/ \E t \in Tracks : TrackRequestFails(t)
    \/ \E t \in Tracks : TrackRequestOnClosedSession(t)
    \/ \E t \in Tracks : TrackSleep(t)
    \/ \E t \in Tracks : TrackReturn(t)
    \/ GatherRaises
    \/ GatherReturns
    \/ SessionExit
    \/ RunCancelsTasks

SpecOrch == InitOrch /\ [][NextOrch]_vars

-----------------------------------------------------------------------------
(* Properties of the merge engine, checked under SpecMerge                 *)

is_blank(e) == e.line.k = "blank"

\* entry i is the first line of the body that call output[i].seg printed
first_of_body(i) ==
    /\ output[i].org = "body"
    /\ i > 1 => (output[i - 1].seg # output[i].seg \/ output[i - 1].org # "body")

\* what C9 says of one state of the merge engine
header_from_first_accepted(w) ==
    /\ w.is_first_file <=> w.accepted = <<>>
    /\ w.accepted = <<>> => w.output = <<>>
    /\ w.accepted # <<>> =>
          /\ w.output[1].org = "header"
          /\ w.output[1].line = Magic
    /\ \A i \in 1..Len(w.output) :
          /\ w.output[i].seg \in Range(w.accepted)
          /\ w.output[i].org = "header" => w.output[i].seg = w.accepted[1]

\* C9: header lines are printed for one payload only, the first that passes
\* the first-line check; is_first_file is true until that payload has been
\* processed and false ever after; rejected payloads print nothing and
\* leave it true.
C9_HeaderOnce ==
    /\ header_from_first_accepted(vttwriter)
    /\ [][ /\ header_from_first_accepted(vttwriter')
           /\ ~vttwriter.is_first_file => ~vttwriter'.is_first_file ]_vars

\* two payloads were accepted and the second one printed body lines
C9_Witness ==
    /\ Len(vttwriter.accepted) = 2
    /\ ~vttwriter.is_first_file
    /\ \E i \in 1..Len(output) :
          output[i].seg = vttwriter.accepted[2] /\ output[i].org = "body"

\* C10 as stated: the output never has two consecutive blank lines, and the
\* first body line of every payload follows a blank line.
C10_NoDoubleBlank ==
    /\ \A i \in 1..(Len(output) - 1) :
          ~(is_blank(output[i]) /\ is_blank(output[i + 1]))
    /\ \A i \in 2..Len(output) :
          first_of_body(i) => is_blank(output[i - 1])

\* C10 as amended: the separator is never printed after a blank line, the
\* first body line of every payload follows a blank line, and of two
\* consecutive blank lines the second is always a body line of a payload.
C10_SeparatorAtJoin ==
    /\ \A i \in 1..Len(output) :
          output[i].org = "sep" => (i > 1 /\ ~is_blank(output[i - 1]))
    /\ \A i \in 1..Len(output) :
          first_of_body(i) => (i > 1 /\ is_blank(output[i - 1]))
    /\ \A i \in 1..(Len(output) - 1) :
          (is_blank(output[i]) /\ is_blank(output[i + 1]))
             => output[i + 1].org = "body"

\* a payload ended with a blank line and the next one's body follows it
\* with no separator printed
C10_Witness ==
    \E i \in 1..(Len(output) - 1) :
        /\ output[i].seg # output[i + 1].seg
        /\ output[i].org = "body"
        /\ is_blank(output[i])
        /\ output[i + 1].org = "body"
        /\ ~is_blank(output[i + 1])

-----------------------------------------------------------------------------
(* Properties of the orchestration, checked under SpecOrch                 *)

\* C6: the failure of one track's task leaves every other task alone: no
\* task is cancelled, no task fails for a reason other than its own file or
\* request, the session is closed and download_all_subtitles is left only
\* when every task has finished.
C6_FailureIsolated ==
    /\ \A t \in Tracks :
          /\ downloaders[t].pc # "cancelled"
          /\ downloaders[t].pc = "failed" => downloaders[t].cause = "own"
    /\ (session = "closed" \/ main_pc \in {"error", "finished", "exited"})
          => \A t \in Tracks : finished(downloaders[t])

-----------------------------------------------------------------------------
(* Properties of the file creation, checked under SpecOpen                 *)

free_names(fs) == { n \in FileNames : n \notin fs.old \cup fs.new }

lowest(names) == CHOOSE n \in names : \A k \in names : n <= k

\* C11: creating the output file leaves every existing file as it was; the
\* file created is output_filename if that name is free and else the
\* lowest-numbered free name among base-1 .. base-99; when none is free the
\* constructor raises and the directory is unchanged.
C11_ExclusiveCreate ==
    [][ /\ files'.old = files.old
        /\ files.new \subseteq files'.new
        /\ pc = "open" =>
             IF free_names(files) = {}
             THEN pc' = "open_failed" /\ files' = files /\ output_file' = output_file
             ELSE /\ pc' = "opened"
                  /\ output_file' = OutputFile(lowest(free_names(files)))
                  /\ files'.new = files.new \cup {lowest(free_names(files))} ]_vars

\* base and base-1 .. base-49 existed, base-50 was free and was created
C11_Witness ==
    /\ pc = "opened"
    /\ output_file.name = 50
    /\ files.new = {50}
    /\ (0..49) \subseteq files.old
    /\ LAST_ALTERNATIVE \in files.old

-----------------------------------------------------------------------------
(* Properties of the timestamp conversions, checked under SpecTs           *)

\* C13: a value below 24 h printed as HH:MM:SS.mmm parses back to the same
\* value, and printing the parsed value gives the same text again.
C13_TimestampRoundTrip ==
    /\ tsv.at \in {"text", "parsed", "text2"} =>
          /\ tsv.text.h \in 0..23
          /\ tsv.text.m \in 0..59
          /\ tsv.text.s \in 0..59
          /\ Len(tsv.text.frac) = 3
    /\ tsv.at \in {"parsed", "text2"} => tsv.parsed = tsv.v
    /\ tsv.at = "text2" => tsv.text2 = tsv.text

\* 23:59:59.009 went through both conversions
C13_Witness ==
    /\ tsv.at = "text2"
    /\ tsv.v = ((23 * 60 + 59) * 60 + 59) * 1000 + 9
    /\ tsv.text = Ts(23, 59, 59, <<0, 0, 9>>)

-----------------------------------------------------------------------------
(* Properties of the cue handling, checked under SpecMerge                 *)

\* C14: a cue whose shifted end is negative is dropped whole: no line from
\* its timing line to the blank line that ends it is printed.
C14_DroppedCueIsAtomic ==
    \A i \in 1..Len(output) : ~output[i].of_dropped

-----------------------------------------------------------------------------
(* Properties of the first-line check, checked under SpecMerge             *)

\* C21: a call whose payload's first non-empty line is not the WEBVTT line
\* prints nothing and leaves is_first_file, last_line_was_empty and the
\* MPEG-2 times as they were, so that the next call finds the object as if
\* the rejected call had not been made.
C21_RejectedPayloadLeavesNoTrace ==
    [][ (vttwriter'.ncalls = vttwriter.ncalls + 1
            /\ vttwriter'.first_nonempty # "magic") =>
           /\ vttwriter'.output = vttwriter.output
           /\ vttwriter'.is_first_file = vttwriter.is_first_file
           /\ vttwriter'.last_line_was_empty = vttwriter.last_line_was_empty
           /\ vttwriter'.start_mpegtime = vttwriter.start_mpegtime
           /\ vttwriter'.last_file_mpegtime = vttwriter.last_file_mpegtime
           /\ vttwriter'.accepted = vttwriter.accepted ]_vars

\* a payload that starts with a line other than WEBVTT was rejected after
\* a payload had been accepted, and the object still expects no header
C21_Witness ==
    /\ vttwriter.ncalls = 2
    /\ vttwriter.accepted = <<1>>
    /\ vttwriter.first_nonempty \in {"text", "timing"}
    /\ ~vttwriter.is_first_file
    /\ output # <<>>

-----------------------------------------------------------------------------
(* Properties of the cue times, checked under SpecCues                     *)

\* the time a printed timestamp stands for; a negative time is printed
\* with negative hours
written_ms(ts) == ms_ljust(ts.frac) + 1000 * (ts.s + 60 * (ts.m + 60 * ts.h))

\* the cue timings line of the payload of call c, and its text line
cue_of(c) == payloads[c][Len(payloads[c]) - 1]

\* the output entry of the cue of call c, if the cue was printed
printed_cue(c) ==
    { i \in 1..Len(output) :
        output[i].seg = c /\ output[i].org = "body"
           /\ output[i].line.k = "timing" }

\* C22: a cue whose shifted end is 0 or more is printed, with its start
\* clamped to 0 when the shifted start is negative and with its shifted
\* end, its settings and its text line as they are; a cue whose shifted
\* end is negative is not printed; so no printed cue has a negative start
\* or end, and a cue with start <= end is printed with start <= end.
C22_StartClampedAtZero ==
    /\ \A c \in Range(vttwriter.accepted) :
          \/ /\ printed_cue(c) = {}
             /\ \E k \in 1..Len(vttwriter.dropped) :
                   LET d == vttwriter.dropped[k] IN
                   d.seg = c /\ d.raw_b + d.off < 0
          \/ \E i \in printed_cue(c) :
                LET e  == output[i]
                    sa == parse_timestamp(cue_of(c).a) + e.off
                    sb == parse_timestamp(cue_of(c).b) + e.off
                IN  /\ printed_cue(c) = {i}
                    /\ sb >= 0
                    /\ written_ms(e.line.a) = (IF sa < 0 THEN 0 ELSE sa)
                    /\ written_ms(e.line.b) = sb
                    /\ e.line.n = cue_of(c).n
                    /\ i < Len(output)
                    /\ output[i + 1].line = payloads[c][Len(payloads[c])]
                    /\ output[i + 1].seg = c
    /\ \A i \in 1..Len(output) :
          output[i].line.k = "timing" =>
             /\ output[i].line.a.h >= 0
             /\ output[i].line.b.h >= 0
             /\ written_ms(output[i].line.a) >= 0
             /\ written_ms(output[i].line.b) >= 0
             /\ output[i].raw_a <= output[i].raw_b =>
                   written_ms(output[i].line.a) <= written_ms(output[i].line.b)

\* one cue printed from 0 to 0 (its shifted end is exactly 0) and one
\* printed from 0 to 1 s with its settings
C22_Witness ==
    /\ \E i \in 1..Len(output) :
          /\ output[i].line.k = "timing"
          /\ output[i].raw_a + output[i].off < 0
          /\ output[i].raw_b + output[i].off = 0
          /\ written_ms(output[i].line.a) = 0
          /\ written_ms(output[i].line.b) = 0
    /\ \E i \in 1..Len(output) :
          /\ output[i].line.k = "timing"
          /\ output[i].raw_a + output[i].off < 0
          /\ written_ms(output[i].line.b) = Sec(1)
          /\ output[i].line.n = 1

-----------------------------------------------------------------------------
(* Properties of the header, checked under SpecCues                        *)

\* the lines of a payload before its first empty line
RECURSIVE header_of(_, _)
header_of(lines, i) ==
    IF i > Len(lines) \/ lines[i].k = "blank" THEN <<>>
    ELSE <<lines[i]>> \o header_of(lines, i + 1)

is_x_timestamp_map(line) == line.k = "tsmap"

not_x_timestamp_map(line) == ~is_x_timestamp_map(line)

\* the lines printed as header lines, in the order of the output
RECURSIVE header_printed(_)
header_printed(i) ==
    IF i > Len(output) THEN <<>>
    ELSE (IF output[i].org = "header" THEN <<output[i].line>> ELSE <<>>)
         \o header_printed(i + 1)

\* C23 as stated: the header lines of the first accepted payload, from the
\* WEBVTT line up to the first empty line, are all in the output, as they
\* are and in their order.
C23_HeaderCopiedWhole ==
    vttwriter.accepted # <<>> =>
        header_printed(1) = header_of(payloads[vttwriter.accepted[1]], 1)

\* C23 as amended: the header lines of the first accepted payload other
\* than X-TIMESTAMP-MAP lines are in the output, as they are and in their
\* order, at the top of the output; no X-TIMESTAMP-MAP line is printed.
C23_HeaderCopiedButTimestampMap ==
    /\ vttwriter.accepted # <<>> =>
          LET copied == SelectSeq(
                  header_of(payloads[vttwriter.accepted[1]], 1),
                  not_x_timestamp_map)
          IN  /\ header_printed(1) = copied
              /\ \A i \in 1..Len(copied) :
                    output[i].org = "header" /\ output[i].line = copied[i]
    /\ \A i \in 1..Len(output) : ~is_x_timestamp_map(output[i].line)

\* the first accepted payload came after a rejected one and had a line
\* that looks like cue timings in its header, after the X-TIMESTAMP-MAP line
C23_Witness ==
    /\ vttwriter.accepted = <<2>>
    /\ Len(header_of(payloads[2], 1)) = 3
    /\ Len(output) >= 2
    /\ output[2].org = "header"
    /\ output[2].line = CueLine

-----------------------------------------------------------------------------
(* Properties of the MPEG-2 clock, checked under SpecCues                  *)

\* the MPEGTS value of the X-TIMESTAMP-MAP line of a payload's header
mpegts_of(lines) ==
    SelectSeq(header_of(lines, 1), is_x_timestamp_map)[1].mp

\* the 33-bit counter went round between two payloads: the earlier value
\* is in the upper half of the range and the later one in the lower half
wraps(earlier, later) ==
    /\ earlier.hi >= WrapHi \div 2
    /\ earlier.hi < WrapHi
    /\ later.hi < WrapHi \div 2

\* C27: when the raw MPEGTS value of a payload is not below that of the
\* payload before it, or is below it because the counter wrapped at 2^33,
\* the corrected value kept in last_file_mpegtime is not below the one
\* kept for the payload before.
C27_ClockNeverGoesBack ==
    [][ (/\ vttwriter.accepted # <<>>
         /\ Len(vttwriter'.accepted) = Len(vttwriter.accepted) + 1
         /\ LET earlier == mpegts_of(
                     payloads[vttwriter.accepted[Len(vttwriter.accepted)]])
                later   == mpegts_of(payloads'[Len(payloads')])
            IN  ~MpegLess(later, earlier) \/ wraps(earlier, later))
        => ~MpegLess(vttwriter'.last_file_mpegtime,
                     vttwriter.last_file_mpegtime) ]_vars

-----------------------------------------------------------------------------
(* The output files of the tracks, checked under SpecOrch                  *)

\* the tracks whose WebVTTMerge has a file
holders == { t \in Tracks : downloaders[t].file # NoOutputFile.name }

\* C26: the tracks of one run never share an output file: the files held by
\* two tracks differ even when their suffixes are the same, each was
\* created by this run under a name of its track's suffix and is no file
\* that existed before, and whatever was printed into a file was printed by
\* the one track that holds it.
C26_NoSharedOutputFile ==
    /\ \A t1, t2 \in holders :
          t1 # t2 => downloaders[t1].file # downloaders[t2].file
    /\ \A t \in holders :
          /\ downloaders[t].file \in names_of(downloaders[t].suffix)
          /\ downloaders[t].file \in files.new
          /\ downloaders[t].file \notin files.old
    /\ \A w \in written : w[1] = downloaders[w[2]].file
    /\ \A w1, w2 \in written : w1[1] = w2[1] => w1[2] = w2[2]

\* two tracks of the same suffix run at once where output_filename was
\* there already, and each has printed into its own file
C26_Witness ==
    /\ output_filename(0) \in files.old
    /\ downloaders[1].suffix = 0
    /\ downloaders[2].suffix = 0
    /\ downloaders[1].pc = "scan"
    /\ downloaders[2].pc = "scan"
    /\ {<<downloaders[1].file, 1>>, <<downloaders[2].file, 2>>} \subseteq written
    /\ {downloaders[1].file, downloaders[2].file}
          = {output_filename(0) + 1, output_filename(0) + 2}

=============================================================================
